---- MODULE Spec2Model ----
(***************************************************************************)
(* Model of kafka_cluster_manager/cluster_info/broker.py: the Broker       *)
(* membership mutations (add/remove/move partition), the partition         *)
(* transfer selection (get_eligible_partition) and the preferred-leader    *)
(* rebalancing (decrease_leader_count).                                    *)
(*                                                                         *)
(* A Broker is its id; a Partition is the pair (topic, partition_id).      *)
(* Broker._partitions is the function `partitions`, Partition.replicas is  *)
(* the function `replicas`.  The Partition class (leader, followers,       *)
(* swap_leader, count_siblings) is not part of broker.py and is modelled   *)
(* from its description.                                                   *)
(***************************************************************************)
EXTENDS Integers, Sequences, FiniteSets, TLC

VARIABLES
    brokers,            \* ids of the Broker objects of the loaded topology
    cluster,            \* the Partition objects of the loaded topology
    partitions,         \* partitions[b] = Broker(b)._partitions
    replicas,           \* replicas[p]   = p.replicas (ordered, first = leader)
    leaders_per_broker, \* the caller's broker -> leader-count mapping
    pc,                 \* "idle", or "dlc" inside decrease_leader_count
    possible_partitions,\* decrease_leader_count: candidates not yet visited
    swaps,              \* decrease_leader_count: swaps done by the current/last call
    call,               \* the last call: operation, arguments, outcome
    pre,                \* partitions/replicas/leaders_per_broker when it started
    handed              \* decrease_leader_count: what the call just before, made
                        \* with the same opt_count, handed to the broker now called

vars == <<brokers, cluster, partitions, replicas, leaders_per_broker, pc,
          possible_partitions, swaps, call, pre, handed>>

----------------------------------------------------------------------------
(* Bounds and the universe of objects *)

MaxOpt == 2       \* opt_count ranges over 0..MaxOpt
MaxCount == 3     \* initial leaders_per_broker values range over 0..MaxCount

NoBroker == "-"
NoPartition == [topic |-> "-", partition_id |-> 0]

P10 == [topic |-> "T1", partition_id |-> 0]
P11 == [topic |-> "T1", partition_id |-> 1]
P20 == [topic |-> "T2", partition_id |-> 0]

\* The topologies a run may be loaded with (brokers and partitions are
\* constructed once and only their membership links are edited afterwards).
Topologies ==
    { [brokers |-> {"A", "B", "C", "D"}, partitions |-> {P10}],
      [brokers |-> {"A", "B", "C"},      partitions |-> {P10, P20}],
      [brokers |-> {"A", "B"},           partitions |-> {P10, P11, P20}] }

----------------------------------------------------------------------------
(* Python list helpers *)

InSeq(x, s) == \E i \in 1..Len(s) : s[i] = x

\* list.index(x) for x in s: the first position holding x
IndexOf(x, s) == CHOOSE i \in 1..Len(s) : s[i] = x /\ \A j \in 1..(i - 1) : s[j] # x

\* variant: list.pop(), drops the last element whatever it is
ListPop(s, x) == SubSeq(s, 1, Len(s) - 1)

\* list.remove(x) for x in s: drops the first occurrence only
ListRemove(s, x) ==
    LET i == IndexOf(x, s)
    IN  [j \in 1..(Len(s) - 1) |-> IF j < i THEN s[j] ELSE s[j + 1]]

\* sequences over S without repetition
UniqueSeqs(S) ==
    { s \in UNION { [1..n -> S] : n \in 0..Cardinality(S) } :
        \A i, j \in 1..Len(s) : i # j => s[i] # s[j] }

Permutations_(S) == { s \in UniqueSeqs(S) : Len(s) = Cardinality(S) }

----------------------------------------------------------------------------
(* Partition (collaborator) *)

leader(rs) == rs[1]
followers(rs) == Tail(rs)

\* moves new_leader to the front by exchanging it with the current leader
swap_leader(rs, new_leader) ==
    LET i == IndexOf(new_leader, rs)
    IN  [j \in 1..Len(rs) |-> IF j = 1 THEN rs[i] ELSE IF j = i THEN rs[1] ELSE rs[j]]

\* number of partitions of ps that share p's topic
count_siblings(p, ps) == Cardinality({ q \in ps : q.topic = p.topic })

----------------------------------------------------------------------------
(* Broker membership mutation.  A graph state g is a record with the       *)
(* fields partitions, replicas and exc (the exception that ended the call, *)
(* "none" when it returned).                                               *)

Graph(ps, rs) == [partitions |-> ps, replicas |-> rs, exc |-> "none"]

\* variant: forgets to take the broker out of partition.replicas
remove_partition_keeps_replica(g, self, partition) ==
    IF partition \in g.partitions[self]
    THEN [partitions |-> [g.partitions EXCEPT ![self] = @ \ {partition}],
          replicas |-> g.replicas, exc |-> "none"]
    ELSE [partitions |-> g.partitions, replicas |-> g.replicas, exc |-> "ValueError"]

\* variant: set.discard semantics, an absent partition is ignored silently
remove_partition_discard(g, self, partition) ==
    IF partition \in g.partitions[self]
    THEN [partitions |-> [g.partitions EXCEPT ![self] = @ \ {partition}],
          replicas |-> [g.replicas EXCEPT ![partition] = ListRemove(@, self)],
          exc |-> "none"]
    ELSE [partitions |-> g.partitions, replicas |-> g.replicas, exc |-> "none"]

remove_partition(g, self, partition) ==
    IF partition \in g.partitions[self]
    THEN LET ps == [g.partitions EXCEPT ![self] = @ \ {partition}]
         IN  IF InSeq(self, g.replicas[partition])
             THEN [partitions |-> ps,
                   replicas |-> [g.replicas EXCEPT ![partition] = ListRemove(@, self)],
                   exc |-> "none"]
             ELSE \* list.remove(x): x not in list
                  [partitions |-> ps, replicas |-> g.replicas, exc |-> "ValueError"]
    ELSE [partitions |-> g.partitions, replicas |-> g.replicas, exc |-> "ValueError"]

\* variant: no assertion, the broker is appended even when it holds the partition
add_partition_unchecked(g, self, partition) ==
    [partitions |-> [g.partitions EXCEPT ![self] = @ \cup {partition}],
     replicas |-> [g.replicas EXCEPT ![partition] = Append(@, self)],
     exc |-> "none"]

\* variant: the broker is inserted at the head of the replica list
add_partition_front(g, self, partition) ==
    IF partition \in g.partitions[self]
    THEN [partitions |-> g.partitions, replicas |-> g.replicas, exc |-> "AssertionError"]
    ELSE [partitions |-> [g.partitions EXCEPT ![self] = @ \cup {partition}],
          replicas |-> [g.replicas EXCEPT ![partition] = <<self>> \o @],
          exc |-> "none"]

add_partition(g, self, partition) ==
    IF partition \in g.partitions[self]
    THEN [partitions |-> g.partitions, replicas |-> g.replicas, exc |-> "AssertionError"]
    ELSE [partitions |-> [g.partitions EXCEPT ![self] = @ \cup {partition}],
          replicas |-> [g.replicas EXCEPT ![partition] = Append(@, self)],
          exc |-> "none"]

move_partition(g, self, partition, broker_destination) ==
    LET r == remove_partition(g, self, partition)
    IN  IF r.exc # "none" THEN r ELSE add_partition(r, broker_destination, partition)

----------------------------------------------------------------------------
(* Partition transfer selection *)

\* variant: max() instead of min()
MaxSiblings(source_partitions, dest_partitions) ==
    { p \in source_partitions :
        \A q \in source_partitions :
            count_siblings(p, dest_partitions) >= count_siblings(q, dest_partitions) }

\* min(source_partitions, key=count_siblings(dest_partitions)): some element
\* with the least key (the first one met in the set's iteration order)
MinSiblings(source_partitions, dest_partitions) ==
    { p \in source_partitions :
        \A q \in source_partitions :
            count_siblings(p, dest_partitions) <= count_siblings(q, dest_partitions) }

\* variant: the filter is inverted, keeping the partitions destination holds
shared_source_partitions(g, self, broker_destination) ==
    { p \in g.partitions[self] : p \in g.partitions[broker_destination] }

\* variant: every partition of the source is a candidate
all_source_partitions(g, self, broker_destination) == g.partitions[self]

valid_source_partitions(g, self, broker_destination) ==
    { p \in g.partitions[self] : p \notin g.partitions[broker_destination] }

\* variant: the filter is inverted, keeping the partitions both brokers hold
shared_dest_partitions(g, self, broker_destination) ==
    { p \in g.partitions[broker_destination] : p \in g.partitions[self] }

valid_dest_partitions(g, self, broker_destination) ==
    { p \in g.partitions[broker_destination] : p \notin g.partitions[self] }

\* the set of (partition, sibling count, exc) results the call may produce
_get_preffered_partition(source_partitions, dest_partitions) ==
    IF source_partitions = {}
    THEN \* min() arg is an empty sequence
         { [partition |-> NoPartition, sibling_cnt |-> 0, exc |-> "ValueError"] }
    ELSE { [partition |-> p, sibling_cnt |-> count_siblings(p, dest_partitions),
            exc |-> "none"] : p \in MinSiblings(source_partitions, dest_partitions) }

get_eligible_partition(g, self, broker_destination) ==
    _get_preffered_partition(valid_source_partitions(g, self, broker_destination),
                             valid_dest_partitions(g, self, broker_destination))

----------------------------------------------------------------------------
(* State *)

Current == Graph(partitions, replicas)

PreState == [partitions |-> partitions, replicas |-> replicas,
             leaders_per_broker |-> leaders_per_broker]

Call(op, self, partition, dest, exc) ==
    [op |-> op, self |-> self, partition |-> partition, dest |-> dest,
     exc |-> exc, opt_count |-> 0, ret |-> NoPartition, sibling_cnt |-> 0]

\* what count_preferred_replica returns for broker b
count_preferred_replica(g, b) ==
    Cardinality({ p \in g.partitions[b] :
                    g.replicas[p] # <<>> /\ leader(g.replicas[p]) = b })

PartitionsOf(bs, ps, rs) == [b \in bs |-> { p \in ps : InSeq(b, rs[p]) }]

InitGraph ==
    \E topo \in Topologies :
        /\ brokers = topo.brokers
        /\ cluster = topo.partitions
        /\ replicas \in [topo.partitions -> UniqueSeqs(topo.brokers) \ {<<>>}]
        /\ partitions = PartitionsOf(brokers, cluster, replicas)
        /\ pc = "idle"
        /\ possible_partitions = <<>>
        /\ swaps = <<>>
        /\ call = Call("init", NoBroker, NoPartition, NoBroker, "none")
        /\ handed = {}

\* the membership operations never read leaders_per_broker: no mapping has
\* been filled in yet
Init ==
    /\ InitGraph
    /\ leaders_per_broker = [b \in brokers |-> 0]
    /\ pre = PreState

\* the caller of decrease_leader_count supplies the mapping
InitLeader ==
    /\ InitGraph
    /\ Cardinality(cluster) > 1
    /\ leaders_per_broker \in [brokers -> 0..MaxCount]
    /\ pre = PreState

----------------------------------------------------------------------------
(* Calls of the membership operations *)

Apply(r, c) ==
    /\ partitions' = r.partitions
    /\ replicas' = r.replicas
    /\ call' = c
    /\ pre' = PreState
    /\ handed' = {}
    /\ UNCHANGED <<brokers, cluster, leaders_per_broker, pc, possible_partitions, swaps>>

CallRemovePartition(self, partition) ==
    /\ pc = "idle"
    /\ LET r == remove_partition(Current, self, partition)
       IN  Apply(r, Call("remove_partition", self, partition, NoBroker, r.exc))

CallAddPartition(self, partition) ==
    /\ pc = "idle"
    /\ LET r == add_partition(Current, self, partition)
       IN  Apply(r, Call("add_partition", self, partition, NoBroker, r.exc))

CallMovePartition(self, partition, broker_destination) ==
    /\ pc = "idle"
    /\ LET r == move_partition(Current, self, partition, broker_destination)
       IN  Apply(r, Call("move_partition", self, partition, broker_destination, r.exc))

CallGetEligiblePartition(self, broker_destination) ==
    /\ pc = "idle"
    /\ \E r \in get_eligible_partition(Current, self, broker_destination) :
          Apply(Current,
                [Call("get_eligible_partition", self, NoPartition, broker_destination, r.exc)
                    EXCEPT !.ret = r.partition, !.sibling_cnt = r.sibling_cnt])

Next ==
    \/ \E self \in brokers, p \in cluster : CallRemovePartition(self, p)
    \/ \E self \in brokers, p \in cluster : CallAddPartition(self, p)
    \/ \E self \in brokers, p \in cluster, dst \in brokers : CallMovePartition(self, p, dst)
    \/ \E self \in brokers, dst \in brokers : CallGetEligiblePartition(self, dst)

Spec == Init /\ [][Next]_vars

----------------------------------------------------------------------------
(* decrease_leader_count(self, partitions, leaders_per_broker, opt_count),  *)
(* called with the set of all partitions of the cluster.  One step per      *)
(* iteration of the outer loop, so that the counts can be observed during   *)
(* the call.                                                                *)

\* variant: the leader test is missing
CandidatesAnyLeader(rs, ps, self) == { p \in ps : Len(rs[p]) > 1 }

\* partitions led by self that have more than one replica
Candidates(rs, ps, self) ==
    { p \in ps : rs[p] # <<>> /\ self = leader(rs[p]) /\ Len(rs[p]) > 1 }

\* variant: only the balance gap is tested
SwapConditionGapOnly(lpb, self, f, opt_count) == lpb[self] - lpb[f] > 1

\* the condition of the inner loop for follower f
SwapCondition(lpb, self, f, opt_count) ==
    lpb[f] <= opt_count /\ lpb[self] - lpb[f] > 1

\* the followers of rs in scan order that satisfy the condition
EligibleFollowers(rs, lpb, self, opt_count) ==
    SelectSeq(followers(rs), LAMBDA f : SwapCondition(lpb, self, f, opt_count))

\* variant: the count of self is not decremented
UpdateCountsNoDecrement(lpb, self, new_leader) ==
    [lpb EXCEPT ![new_leader] = @ + 1]

\* variant: the count of new_leader is not incremented
UpdateCountsNoIncrement(lpb, self, new_leader) ==
    [lpb EXCEPT ![self] = @ - 1]

\* lines 110-111: one leadership goes from self to new_leader
UpdateCounts(lpb, self, new_leader) ==
    [lpb EXCEPT ![new_leader] = @ + 1, ![self] = @ - 1]

\* variant: the early return is missing
NeverReachedTarget(lpb, self, opt_count) == FALSE

\* line 113: the early return of the outer loop
ReachedTarget(lpb, self, opt_count) == lpb[self] = opt_count

\* the (partition, former leader) pairs that the call just finished, if it
\* was a decrease_leader_count with this opt_count, handed to broker self
HandedTo(self, opt_count) ==
    IF call.op = "decrease_leader_count" /\ call.opt_count = opt_count
    THEN { <<swaps[i].partition, call.self>> :
              i \in { k \in 1..Len(swaps) : swaps[k].new_leader = self } }
    ELSE {}

\* lines 97-101: the list of candidates, in the iteration order of the set
DecreaseLeaderCount(self, opt_count) ==
    /\ pc = "idle"
    /\ \E order \in Permutations_(Candidates(replicas, cluster, self)) :
          possible_partitions' = order
    /\ pc' = "dlc"
    /\ swaps' = <<>>
    /\ call' = [Call("decrease_leader_count", self, NoPartition, NoBroker, "running")
                   EXCEPT !.opt_count = opt_count]
    /\ pre' = PreState
    /\ handed' = HandedTo(self, opt_count)
    /\ UNCHANGED <<brokers, cluster, partitions, replicas, leaders_per_broker>>

\* lines 102-114: one iteration of the outer loop
DecreaseStep ==
    /\ pc = "dlc"
    /\ possible_partitions # <<>>
    /\ LET self == call.self
           opt_count == call.opt_count
           possible_victim_partition == Head(possible_partitions)
           eligible == EligibleFollowers(replicas[possible_victim_partition],
                                         leaders_per_broker, self, opt_count)
           new_leader == Head(eligible)
           lpb == IF eligible = <<>> THEN leaders_per_broker
                  ELSE UpdateCounts(leaders_per_broker, self, new_leader)
       IN  /\ IF eligible = <<>>
              THEN UNCHANGED <<replicas, swaps>>
              ELSE /\ replicas' = [replicas EXCEPT ![possible_victim_partition] =
                                      swap_leader(@, new_leader)]
                   /\ swaps' = Append(swaps,
                          [partition |-> possible_victim_partition,
                           new_leader |-> new_leader,
                           replicas |-> replicas[possible_victim_partition],
                           leaders_per_broker |-> leaders_per_broker])
           /\ leaders_per_broker' = lpb
           /\ IF ReachedTarget(lpb, self, opt_count)
              THEN /\ pc' = "idle"
                   /\ possible_partitions' = <<>>
                   /\ call' = [call EXCEPT !.exc = "none"]
              ELSE /\ pc' = pc
                   /\ possible_partitions' = Tail(possible_partitions)
                   /\ call' = call
    /\ UNCHANGED <<brokers, cluster, partitions, pre, handed>>

\* the outer loop is exhausted
DecreaseReturn ==
    /\ pc = "dlc"
    /\ possible_partitions = <<>>
    /\ pc' = "idle"
    /\ call' = [call EXCEPT !.exc = "none"]
    /\ UNCHANGED <<brokers, cluster, partitions, replicas, leaders_per_broker,
                   possible_partitions, swaps, pre, handed>>

NextLeader ==
    \/ \E self \in brokers, opt_count \in 0..MaxOpt : DecreaseLeaderCount(self, opt_count)
    \/ DecreaseStep
    \/ DecreaseReturn

SpecLeader == InitLeader /\ [][NextLeader]_vars

\* membership edits and leader rebalancing on one cluster of two brokers,
\* the mapping filled in from count_preferred_replica
InitCluster ==
    /\ InitGraph
    /\ Cardinality(brokers) = 2
    /\ leaders_per_broker = [b \in brokers |-> count_preferred_replica(Current, b)]
    /\ pre = PreState

NextCluster == Next \/ NextLeader

SpecCluster == InitCluster /\ [][NextCluster]_vars

\* one rebalancing pass with a fixed opt_count over four brokers: broker A
\* leads every partition, each partition has one follower
PassOpt == 4

InitPass ==
    /\ brokers = {"A", "B", "C", "D"}
    /\ cluster = {P10, P11, P20}
    /\ replicas \in [cluster -> { s \in UniqueSeqs(brokers) :
                                    Len(s) = 2 /\ leader(s) = "A" }]
    /\ partitions = PartitionsOf(brokers, cluster, replicas)
    /\ pc = "idle"
    /\ possible_partitions = <<>>
    /\ swaps = <<>>
    /\ call = Call("init", NoBroker, NoPartition, NoBroker, "none")
    /\ handed = {}
    /\ leaders_per_broker \in [brokers -> 0..PassOpt]
    /\ pre = PreState

NextPass ==
    \/ \E self \in brokers : DecreaseLeaderCount(self, PassOpt)
    \/ DecreaseStep
    \/ DecreaseReturn

SpecPass == InitPass /\ [][NextPass]_vars

----------------------------------------------------------------------------
(* Properties *)

Returned == pc = "idle" /\ call.exc = "none"
Others(rs, b) == SelectSeq(rs, LAMBDA x : x # b)

\* C1 -- Invariant I1: after every call of add_partition, remove_partition
\* or move_partition, failed or not, a partition is in a broker's partition
\* set iff the broker is in the partition's replica list.
C1_I1 ==
    \A b \in brokers, p \in cluster : p \in partitions[b] <=> InSeq(b, replicas[p])

\* a move that failed in add_partition after remove_partition had acted
C1_Witness ==
    /\ call.op = "move_partition"
    /\ call.exc = "AssertionError"
    /\ partitions # pre.partitions

\* C2 -- Invariant I2: no replica list names a broker twice and no partition
\* set holds two entries with the same (topic, partition_id).
C2_NoDuplicate ==
    /\ \A p \in cluster : \A i, j \in 1..Len(replicas[p]) :
          replicas[p][i] = replicas[p][j] => i = j
    /\ \A b \in brokers : \A p, q \in partitions[b] :
          (p.topic = q.topic /\ p.partition_id = q.partition_id) => p = q

\* add_partition was called on a broker that already holds the partition
C2_Witness ==
    /\ call.op = "add_partition"
    /\ call.partition \in pre.partitions[call.self]
    /\ Len(replicas[call.partition]) > 1

C3_Case ==
    /\ call.op = "move_partition"
    /\ call.partition \in pre.partitions[call.self]
    /\ call.partition \notin pre.partitions[call.dest]

\* C3 -- Move postcondition: moving p from src, which holds it, to dst, which
\* does not, returns with p off src and on dst, src out of p.replicas, dst
\* last in p.replicas behind the other replicas in their old order, and no
\* other partition set changed.
C3_MovePostcondition ==
    C3_Case =>
        LET p == call.partition
            src == call.self
            dst == call.dest
        IN  /\ call.exc = "none"
            /\ p \notin partitions[src]
            /\ p \in partitions[dst]
            /\ ~InSeq(src, replicas[p])
            /\ replicas[p] = Append(Others(pre.replicas[p], src), dst)
            /\ \A b \in brokers \ {src, dst} : partitions[b] = pre.partitions[b]
            /\ \A q \in cluster \ {p} : replicas[q] = pre.replicas[q]

\* the source was the middle one of three replicas
C3_Witness ==
    /\ C3_Case
    /\ Len(pre.replicas[call.partition]) = 3
    /\ pre.replicas[call.partition][2] = call.self
    /\ Len(replicas[call.partition]) = 3

\* C4 -- Move atomicity on co-location (as claimed): a move of p from src to
\* a dst that already holds p (dst = src included) fails and leaves the
\* partition sets and replica lists as they were.
C4_MoveAtomic ==
    ( /\ call.op = "move_partition"
      /\ call.partition \in pre.partitions[call.self]
      /\ call.partition \in pre.partitions[call.dest] )
    => /\ call.exc # "none"
       /\ partitions = pre.partitions
       /\ replicas = pre.replicas

C5_Case ==
    /\ call.op = "remove_partition"
    /\ call.partition \notin pre.partitions[call.self]

\* C5 -- remove_partition of a partition the broker does not hold raises the
\* not-found ValueError and changes no partition set and no replica list.
C5_RemoveNotFound ==
    C5_Case =>
        /\ call.exc = "ValueError"
        /\ partitions = pre.partitions
        /\ replicas = pre.replicas

\* the partition is held by another broker, not by the one asked
C5_Witness ==
    /\ C5_Case
    /\ replicas[call.partition] # <<>>

\* C6 -- add_partition never makes the adding broker the leader (as claimed):
\* a successful b.add_partition(p) appends b behind the unchanged replicas and
\* the leader of p is not b.
C6_AddKeepsLeader ==
    (call.op = "add_partition" /\ call.exc = "none") =>
        /\ replicas[call.partition] = Append(pre.replicas[call.partition], call.self)
        /\ leader(replicas[call.partition]) # call.self

\* C7 -- Invariant I3 (as claimed): every partition keeps at least one replica.
C7_I3 == \A p \in cluster : replicas[p] # <<>>

\* the partitions led by self that have, on the counts lpb, a follower
\* satisfying the swap condition
LedWithTarget(rs, lpb, self, opt_count) ==
    { p \in cluster :
        /\ rs[p] # <<>>
        /\ leader(rs[p]) = self
        /\ \E i \in 2..Len(rs[p]) : SwapCondition(lpb, self, rs[p][i], opt_count) }

C8_Case ==
    /\ call.op = "decrease_leader_count"
    /\ pre.leaders_per_broker[call.self] > call.opt_count
    /\ Cardinality(LedWithTarget(pre.replicas, pre.leaders_per_broker,
                                 call.self, call.opt_count))
          >= pre.leaders_per_broker[call.self] - call.opt_count

\* C8 -- Leader-count convergence (as claimed): under C8_Case the count of
\* self is never below opt_count during the call and is exactly opt_count
\* when the call returns.
C8_ReachesTarget ==
    C8_Case =>
        /\ leaders_per_broker[call.self] >= call.opt_count
        /\ (Returned => leaders_per_broker[call.self] = call.opt_count)

\* C8 (amended) -- under C8_Case the count of self is never below opt_count
\* during the call, and when the call returns it is at least opt_count and
\* below its starting value, one less per swap done.
C8_Bounded ==
    C8_Case =>
        /\ leaders_per_broker[call.self] >= call.opt_count
        /\ leaders_per_broker[call.self] = pre.leaders_per_broker[call.self] - Len(swaps)
        /\ (Returned => leaders_per_broker[call.self] < pre.leaders_per_broker[call.self])

\* the call returned above the target although enough targets existed
C8_Witness ==
    /\ C8_Case
    /\ Returned
    /\ Len(swaps) > 0
    /\ leaders_per_broker[call.self] > call.opt_count

\* the exception remove_partition raises for a partition it does not hold
NotFound == "ValueError"

\* C9 -- No eligible partition (as claimed): when every partition of self is
\* held by destination, get_eligible_partition ends in an outcome other than
\* the not-found error, and changes nothing.
C9_NoEligibleDistinct ==
    ( /\ call.op = "get_eligible_partition"
      /\ valid_source_partitions(pre, call.self, call.dest) = {} )
    => /\ call.exc # NotFound
       /\ partitions = pre.partitions
       /\ replicas = pre.replicas

C10_Case == call.op = "get_eligible_partition" /\ call.exc = "none"

\* C10 -- Transfer eligibility: a partition returned by
\* self.get_eligible_partition(destination) is held by self and not by
\* destination.
C10_Eligible ==
    C10_Case =>
        /\ call.ret \in partitions[call.self]
        /\ call.ret \notin partitions[call.dest]

\* a partition was returned while the two brokers share another one
C10_Witness ==
    /\ C10_Case
    /\ call.self # call.dest
    /\ partitions[call.self] \cap partitions[call.dest] # {}

C11_Case ==
    /\ call.op = "get_eligible_partition"
    /\ call.self = "A"
    /\ call.dest = "B"
    /\ partitions["A"] = {P10}
    /\ partitions["B"] = {P11}

\* C11 -- Concrete transfer scenario (as claimed): with A holding only (T1,0)
\* and B holding only (T1,1), A.get_eligible_partition(B) returns
\* ((T1,0), 0).
C11_ScenarioZero ==
    C11_Case => (call.exc = "none" /\ call.ret = P10 /\ call.sibling_cnt = 0)

\* C11 (amended) -- in that scenario A.get_eligible_partition(B) returns
\* ((T1,0), 1): (T1,1) on B shares the topic of (T1,0).
C11_ScenarioOne ==
    C11_Case => (call.exc = "none" /\ call.ret = P10 /\ call.sibling_cnt = 1)

\* the call was made in the scenario and returned a partition
C11_Witness == C11_Case /\ call.exc = "none" /\ call.ret # NoPartition

DecreaseCall == call.op = "decrease_leader_count"

C12_Before == (P10 :> <<"A", "B">>) @@ (P11 :> <<"A">>) @@ (P20 :> <<"A">>)
C12_After == (P10 :> <<"B", "A">>) @@ (P11 :> <<"A">>) @@ (P20 :> <<"A">>)

C12_First ==
    /\ DecreaseCall /\ call.self = "A" /\ call.opt_count = 1
    /\ cluster = {P10, P11, P20}
    /\ pre.replicas = C12_Before
    /\ pre.leaders_per_broker = ("A" :> 3) @@ ("B" :> 0)

C12_Second ==
    /\ DecreaseCall /\ call.self = "A" /\ call.opt_count = 1
    /\ cluster = {P10, P11, P20}
    /\ pre.replicas = C12_After
    /\ pre.leaders_per_broker = ("A" :> 2) @@ ("B" :> 1)

\* C12 -- Concrete leader scenario: from A leading (T1,0), (T1,1), (T2,0),
\* B the only follower of (T1,0), counts {A:3, B:0} and opt_count 1, the call
\* on A returns with B leading (T1,0), the other leaders unchanged and counts
\* {A:2, B:1}; a second call from that state swaps nothing.
C12_Scenario ==
    /\ (C12_First /\ Returned) =>
          /\ replicas = C12_After
          /\ leaders_per_broker = ("A" :> 2) @@ ("B" :> 1)
    /\ C12_Second =>
          /\ swaps = <<>>
          /\ replicas = C12_After
          /\ leaders_per_broker = ("A" :> 2) @@ ("B" :> 1)

\* the first call of the scenario has returned
C12_Witness == C12_First /\ Returned /\ Len(swaps) = 1

\* C13 -- Early termination (as claimed): a call that starts with the count
\* of self at or above opt_count never swaps while that count equals
\* opt_count and never takes it below opt_count.
C13_NoSwapAtTarget ==
    (DecreaseCall /\ pre.leaders_per_broker[call.self] >= call.opt_count) =>
        /\ leaders_per_broker[call.self] >= call.opt_count
        /\ \A i \in 1..Len(swaps) :
              swaps[i].leaders_per_broker[call.self] # call.opt_count

\* C14 -- Promotion and the target (as claimed): every broker that received
\* a leadership during the call has a count of at most opt_count afterwards.
C14_NotOverTarget ==
    (DecreaseCall /\ Returned) =>
        \A i \in 1..Len(swaps) :
            leaders_per_broker[swaps[i].new_leader] <= call.opt_count

\* C14 (amended) -- every broker that received a leadership during the call
\* had a count of at most opt_count when it was promoted and has at most
\* opt_count + 1 afterwards.
C14_AtMostOneOver ==
    (DecreaseCall /\ Returned) =>
        \A i \in 1..Len(swaps) :
            /\ swaps[i].leaders_per_broker[swaps[i].new_leader] <= call.opt_count
            /\ leaders_per_broker[swaps[i].new_leader] <= call.opt_count + 1

\* a promoted broker ended one above the target
C14_Witness ==
    /\ DecreaseCall /\ Returned
    /\ \E i \in 1..Len(swaps) :
          leaders_per_broker[swaps[i].new_leader] = call.opt_count + 1

\* C15 -- Swap guard: every swap of a call is on a partition led by self with
\* more than one replica, promotes one of its followers f, is taken when
\* count(self) - count(f) > 1 and count(f) <= opt_count on the counts of that
\* moment, and no partition is swapped twice in one call.
C15_SwapGuard ==
    DecreaseCall =>
        /\ \A i \in 1..Len(swaps) :
              LET s == swaps[i]
                  f == s.new_leader
              IN  /\ Len(s.replicas) > 1
                  /\ s.replicas[1] = call.self
                  /\ \E k \in 2..Len(s.replicas) : s.replicas[k] = f
                  /\ s.leaders_per_broker[call.self] - s.leaders_per_broker[f] > 1
                  /\ s.leaders_per_broker[f] <= call.opt_count
        /\ \A i, j \in 1..Len(swaps) :
              swaps[i].partition = swaps[j].partition => i = j

\* two swaps in one call, the second on counts the first one changed
C15_Witness ==
    /\ DecreaseCall
    /\ Len(swaps) = 2
    /\ swaps[2].leaders_per_broker # swaps[1].leaders_per_broker

\* the number of partitions of the cluster whose first replica is b
Led(rs, b) == Cardinality({ p \in cluster : rs[p] # <<>> /\ rs[p][1] = b })

RECURSIVE SumOver(_, _)
SumOver(f, S) ==
    IF S = {} THEN 0
    ELSE LET x == CHOOSE y \in S : TRUE IN f[x] + SumOver(f, S \ {x})

Members(rs) == { rs[i] : i \in 1..Len(rs) }

C16_Case ==
    /\ DecreaseCall
    /\ \A b \in brokers : pre.leaders_per_broker[b] = Led(pre.replicas, b)

\* C16 -- Counter accounting: when the counts equal the number of partitions
\* each broker leads before the call, they still do after every swap, their
\* sum is unchanged, and no replica list or partition set changes membership.
C16_Accounting ==
    C16_Case =>
        /\ \A b \in brokers : leaders_per_broker[b] = Led(replicas, b)
        /\ SumOver(leaders_per_broker, brokers) = SumOver(pre.leaders_per_broker, brokers)
        /\ \A p \in cluster : Members(replicas[p]) = Members(pre.replicas[p])
        /\ \A p \in cluster : Len(replicas[p]) = Len(pre.replicas[p])
        /\ partitions = pre.partitions

\* a call on exact counts that swapped and returned
C16_Witness == C16_Case /\ Returned /\ Len(swaps) > 0

\* the partitions of broker b that broker c does not hold
NotOn(b, c) == partitions[b] \ partitions[c]

\* the partitions of S that have the topic of p
SameTopic(p, S) == { q \in S : q.topic = p.topic }

C17_Case ==
    /\ call.op = "get_eligible_partition"
    /\ NotOn(call.self, call.dest) # {}

\* C17 -- Least-sibling selection: when self holds a partition destination
\* does not, get_eligible_partition returns (p, n) with n the number of
\* partitions only destination holds that share p's topic, and no partition
\* only self holds has a smaller such number.
C17_LeastSiblings ==
    C17_Case =>
        /\ call.exc = "none"
        /\ call.ret \in NotOn(call.self, call.dest)
        /\ call.sibling_cnt =
              Cardinality(SameTopic(call.ret, NotOn(call.dest, call.self)))
        /\ \A q \in NotOn(call.self, call.dest) :
              Cardinality(SameTopic(q, NotOn(call.dest, call.self))) >= call.sibling_cnt

\* another candidate had strictly more siblings on the destination
C17_Witness ==
    /\ C17_Case
    /\ \E q \in NotOn(call.self, call.dest) :
          Cardinality(SameTopic(q, NotOn(call.dest, call.self))) > call.sibling_cnt

\* a move_partition call made with the result of the get_eligible_partition
\* call just before it
SelectThenMove ==
    /\ call.op = "get_eligible_partition"
    /\ call.exc = "none"
    /\ call'.op = "move_partition"
    /\ call'.self = call.self
    /\ call'.partition = call.ret
    /\ call'.dest = call.dest

\* C19 -- Selection guarantees the move: moving the partition that
\* src.get_eligible_partition(dst) returned from src to dst raises neither
\* the not-found error nor the assertion, and ends with the partition on dst
\* and off src.
C19_SelectionGuaranteesMove ==
    [][SelectThenMove =>
          /\ call'.exc = "none"
          /\ call.ret \in partitions'[call.dest]
          /\ call.ret \notin partitions'[call.self]
          /\ InSeq(call.dest, replicas'[call.ret])
          /\ ~InSeq(call.self, replicas'[call.ret])]_vars

\* a completed move of a partition the selection yields in the state before
C19_Witness ==
    /\ call.op = "move_partition"
    /\ call.exc = "none"
    /\ call.self # call.dest
    /\ \E r \in get_eligible_partition(pre, call.self, call.dest) :
          r.exc = "none" /\ r.partition = call.partition

C20_Case ==
    /\ call.op \in {"remove_partition", "move_partition"}
    /\ Len(pre.replicas[call.partition]) >= 2
    /\ pre.replicas[call.partition][1] = call.self

C18_NoHandBack ==
    DecreaseCall =>
        \A i \in 1..Len(swaps) :
            <<swaps[i].partition, swaps[i].new_leader>> \notin handed

====
